---- MODULE Spec2Model ----
(***************************************************************************)
(* Label persistence and progress tracking of the glaucoma labeling tool:  *)
(* the Label Store (utils/dataloader.py, local JSON files plus one row per *)
(* label in a shared spreadsheet) and the Progress Tracker                 *)
(* (utils/patient_tracker.py, one completion row per specialist in a       *)
(* second sheet, read through a 30 s cache).                               *)
(*                                                                         *)
(* Strings of the program are TLA+ strings.  A sheet is the sequence of    *)
(* its rows; values().update writes the rows it is given over the cells    *)
(* they cover and leaves every other cell alone; values().append adds one  *)
(* row after the last one.                                                 *)
(***************************************************************************)
EXTENDS Integers, Sequences, FiniteSets, TLC

\* ------------------------------------------------------------------ bounds
\* most rows the label sheet holds
MaxRows == 3

\* ------------------------------------------------------------ value domains
Specialists == {"117", "118"}
Patients == {"P001", "P002"}
Eyes == {"R", "L"}
Fields == {1, 2}

\* a dictionary without keys
EmptyDict == [k \in {} |-> ""]

\* what a load returns: a dictionary, or None
None == [found |-> FALSE, dict |-> EmptyDict]
Some(d) == [found |-> TRUE, dict |-> d]

\* the content of a local file: the JSON text of a dictionary, or the
\* partial text a failed dump leaves behind
Json(d) == [parses |-> TRUE, dict |-> d]
PartialJson == [parses |-> FALSE, dict |-> EmptyDict]

\* str(vf_number): the decimal text of a field index
IntStr(n) == CASE n = 1 -> "1" [] n = 2 -> "2" [] n = 3 -> "3" [] OTHER -> "4"

\* the characters of an identifier, at the granularity the file name
\* needs: an identifier with '_' in it is cut at the '_'
Tok(id) ==
    CASE id = "a_b" -> <<"a", "_", "b">>
      [] id = "b_c" -> <<"b", "_", "c">>
      [] OTHER -> <<id>>

\* f"{username}_{maskedid}_{eye}_{vf_number}.json"
get_label_path(username, maskedid, eye, vf_number) ==
    Tok(username) \o <<"_">> \o Tok(maskedid) \o <<"_">> \o Tok(eye)
        \o <<"_">> \o <<IntStr(vf_number)>> \o <<".json">>

\* labels_dict.get(key, default)
DictGet(d, key, default) == IF key \in DOMAIN d THEN d[key] ELSE default

\* the label dictionaries a save is called with
Payloads ==
    { [normality |-> "Normal"],
      [normality |-> "Abnormal", comment |-> "seen"] }

\* the columns of the label sheet, in order (identity, payload, specialist)
column_mapping ==
    <<"username", "maskedid", "eye", "vf_number",
      "normality", "comment", "specialist_name">>

\* row_data of _save_to_sheets: the dictionary laid out over the columns
row_data(username, maskedid, eye, vf_number, labels_dict) ==
    [ username |-> username,
      maskedid |-> maskedid,
      eye |-> eye,
      vf_number |-> IntStr(vf_number),
      normality |-> DictGet(labels_dict, "normality", ""),
      comment |-> DictGet(labels_dict, "comment", ""),
      specialist_name |-> DictGet(labels_dict, "specialist_name", username) ]

\* the match test of _find_existing_row on one row of columns A-D
RowMatches(row, username, maskedid, eye, vf_number) ==
    /\ row.username = username
    /\ row.maskedid = maskedid
    /\ row.eye = eye
    /\ row.vf_number = IntStr(vf_number)

\* a lookup that never finds the row
FindNothing(values, username, maskedid, eye, vf_number, readOk) == 0

\* _find_existing_row: 1-based index of the first matching row, 0 for None;
\* a failed read of A:D is caught and gives None as well
find_existing_row(values, username, maskedid, eye, vf_number, readOk) ==
    IF readOk /\ \E i \in 1..Len(values) :
            RowMatches(values[i], username, maskedid, eye, vf_number)
    THEN CHOOSE i \in 1..Len(values) :
            /\ RowMatches(values[i], username, maskedid, eye, vf_number)
            /\ \A j \in 1..(i - 1) : ~RowMatches(values[j], username, maskedid, eye, vf_number)
    ELSE 0

\* values().update over the range A{row}:AB{row}
SheetUpdateRow(values, row, data) == [values EXCEPT ![row] = data]

\* values().append with INSERT_ROWS
SheetAppendRow(values, data) == Append(values, data)

\* _save_to_sheets: result and the sheet afterwards.  svc: a Sheets service
\* could be built; readOk: the A:D read succeeded; writeOk: the update or
\* append call succeeded
save_to_sheets(values, username, maskedid, eye, vf_number, labels_dict, svc, readOk, writeOk) ==
    LET data == row_data(username, maskedid, eye, vf_number, labels_dict)
        existing_row == find_existing_row(values, username, maskedid, eye, vf_number, readOk)
    IN  IF ~svc THEN [ok |-> FALSE, attempted |-> FALSE, values |-> values]
        ELSE IF ~writeOk THEN [ok |-> FALSE, attempted |-> TRUE, values |-> values]
        ELSE IF existing_row # 0
             THEN [ok |-> TRUE, attempted |-> TRUE,
                   values |-> SheetUpdateRow(values, existing_row, data)]
             ELSE [ok |-> TRUE, attempted |-> TRUE,
                   values |-> SheetAppendRow(values, data)]

\* the local half of save_labels: open(filepath, 'w') then json.dump.
\* "open_err": open raised, the file is untouched; "dump_err": the file was
\* opened (truncated) and the dump raised
LocalWrite(fs, path, labels_dict, out) ==
    CASE out = "ok" ->
            [p \in DOMAIN fs \cup {path} |-> IF p = path THEN Json(labels_dict) ELSE fs[p]]
      [] out = "dump_err" ->
            [p \in DOMAIN fs \cup {path} |-> IF p = path THEN PartialJson ELSE fs[p]]
      [] OTHER -> fs

\* the st.error messages of a save: one when the local write raised, one
\* when the remote write raised inside _save_to_sheets
st_errors(local_saved, svc, sheets_saved) ==
    (IF ~local_saved THEN {"Error saving labels locally"} ELSE {})
        \cup (IF svc /\ ~sheets_saved THEN {"Error saving to Google Sheets"} ELSE {})

\* a save that reports success only when both sinks took the record
SaveResultBoth(local_saved, sheets_saved) == local_saved /\ sheets_saved

\* return local_saved or sheets_saved
SaveResult(local_saved, sheets_saved) == local_saved \/ sheets_saved

\* a remote load that answers from the row although its read raised
LoadSheetsUnguarded(values, username, maskedid, eye, vf_number, svc, readOk, rowReadOk) ==
    LET existing_row == find_existing_row(values, username, maskedid, eye, vf_number, TRUE)
        row == values[existing_row]
        keys == {column_mapping[i] : i \in 1..Len(column_mapping)}
    IN  IF ~svc \/ existing_row = 0 THEN None
        ELSE Some([k \in {c \in keys : row[c] # ""} |-> row[k]])

\* load_labels_from_sheets: the dictionary rebuilt from the matching row
\* (cells that are empty are left out)
load_labels_from_sheets(values, username, maskedid, eye, vf_number, svc, readOk, rowReadOk) ==
    LET existing_row == find_existing_row(values, username, maskedid, eye, vf_number, readOk)
        row == values[existing_row]
        keys == {column_mapping[i] : i \in 1..Len(column_mapping)}
    IN  IF ~svc \/ existing_row = 0 \/ ~rowReadOk THEN None
        ELSE Some([k \in {c \in keys : row[c] # ""} |-> row[k]])

\* a load that reads the local file only
LoadLocalOnly(fs, values, username, maskedid, eye, vf_number, svc, readOk, rowReadOk) ==
    LET filepath == get_label_path(username, maskedid, eye, vf_number)
    IN  IF filepath \in DOMAIN fs /\ fs[filepath].parses
        THEN Some(fs[filepath].dict)
        ELSE None

\* load_labels: the local file when it exists and parses, else the sheet
load_labels(fs, values, username, maskedid, eye, vf_number, svc, readOk, rowReadOk) ==
    LET filepath == get_label_path(username, maskedid, eye, vf_number)
    IN  IF filepath \in DOMAIN fs /\ fs[filepath].parses
        THEN Some(fs[filepath].dict)
        ELSE load_labels_from_sheets(values, username, maskedid, eye, vf_number,
                                     svc, readOk, rowReadOk)

\* number of rows of the sheet that carry an identity
RowCount(values, username, maskedid, eye, vf_number) ==
    Cardinality({i \in 1..Len(values) :
                    RowMatches(values[i], username, maskedid, eye, vf_number)})

\* ------------------------------------------------------- Progress Tracker
\* an st.cache_data entry: age -1 when there is none
NoCache == [age |-> 0 - 1]

\* seconds a cached read is served: @st.cache_data(ttl=30)
TTL == 30

\* seconds that pass in one clock step of the model
TickStep == 15

\* most data rows the progress sheet holds
MaxProgRows == 3

\* the patient ids in ascending string order, as sorted() puts them
PatientOrder == <<"P001", "P002", "P003">>

\* ";".join(sorted(completed_set)): the text of a completed_patients cell,
\* kept as the sequence of its ';'-separated pieces
JoinSorted(S) ==
    LET keep(p) == p \in S IN SelectSeq(PatientOrder, keep)

\* set(completed.split(";")) if completed else set()
SplitSet(cell) == {cell[i] : i \in 1..Len(cell)}

\* the header row _write_progress_df puts first: df.columns.tolist()
ProgHeader ==
    [ username |-> "username", completed_patients |-> <<"completed_patients">>,
      last_patient |-> "last_patient" ]

\* the body of get_progress_df: the data rows of the sheet, or the empty
\* frame when there is no service, the read raises, or fewer than 2 rows
fetch_progress_df(values, ok) ==
    IF ~ok \/ Len(values) < 2 THEN << >> ELSE Tail(values)

\* the body of get_all_labels_df over the label sheet (header + data rows):
\* None when there is no service, the read raises, or there is no data row
fetch_all_labels_df(rows, ok) ==
    IF ~ok \/ Len(rows) < 1 THEN [found |-> FALSE, rows |-> << >>]
    ELSE [found |-> TRUE, rows |-> rows]

\* st.cache_data(ttl=30): the entry is served while younger than the ttl,
\* else the function body runs and its result is stored
CacheHit(cache) == cache.age >= 0 /\ cache.age < TTL

Cached(cache, fresh) ==
    IF CacheHit(cache) THEN cache ELSE [age |-> 0, df |-> fresh]

\* an entry that never expires
NeverExpires(cache, d) ==
    IF cache.age < 0 THEN NoCache
    ELSE [cache EXCEPT !.age = IF cache.age + d >= TTL THEN cache.age ELSE cache.age + d]

\* the entry after d more seconds
Age(cache, d) ==
    IF cache.age < 0 \/ cache.age + d >= TTL THEN NoCache
    ELSE [cache EXCEPT !.age = cache.age + d]

\* df.index[df["username"] == username][0], 0 when there is none
UserIndex(df, username) ==
    IF \E i \in 1..Len(df) : df[i].username = username
    THEN CHOOSE i \in 1..Len(df) :
            /\ df[i].username = username
            /\ \A j \in 1..(i - 1) : df[j].username # username
    ELSE 0

\* get_completed_patients on a frame
get_completed_patients(df, username) ==
    LET idx == UserIndex(df, username)
    IN  IF idx = 0 THEN {} ELSE SplitSet(df[idx].completed_patients)

\* a mark that writes last_patient also for a patient already in the set
MarkSetsLast(df, username, maskedid) ==
    LET idx == UserIndex(df, username)
        completed_set == SplitSet(df[idx].completed_patients)
    IN  IF idx = 0
        THEN Append(df, [ username |-> username,
                          completed_patients |-> <<maskedid>>,
                          last_patient |-> maskedid ])
        ELSE [df EXCEPT ![idx] =
                [ username |-> username,
                  completed_patients |-> JoinSorted(completed_set \cup {maskedid}),
                  last_patient |-> maskedid ]]

\* the frame mark_patient_completed builds from the one it read
mark_df(df, username, maskedid) ==
    LET idx == UserIndex(df, username)
        completed_set == SplitSet(df[idx].completed_patients)
    IN  IF idx = 0
        THEN Append(df, [ username |-> username,
                          completed_patients |-> <<maskedid>>,
                          last_patient |-> maskedid ])
        ELSE IF maskedid \notin completed_set
             THEN [df EXCEPT ![idx] =
                     [ username |-> username,
                       completed_patients |-> JoinSorted(completed_set \cup {maskedid}),
                       last_patient |-> maskedid ]]
             ELSE df

\* values().update at A1: the given rows replace the cells they cover, the
\* rows below them stay
SheetUpdateFrom(values, rows) ==
    [ i \in 1..(IF Len(values) > Len(rows) THEN Len(values) ELSE Len(rows)) |->
        IF i <= Len(rows) THEN rows[i] ELSE values[i] ]

\* _write_progress_df: header and frame written from A1; False without a
\* service or when the call raises
write_progress_df(values, df, ok) ==
    IF ~ok THEN [ok |-> FALSE, values |-> values]
    ELSE [ok |-> TRUE, values |-> SheetUpdateFrom(values, <<ProgHeader>> \o df)]

\* df[df["username"] != username]
reset_df(df, username) ==
    LET keep(r) == r.username # username IN SelectSeq(df, keep)

\* the place of a patient id in ascending string order
Rank(p) == CHOOSE i \in 1..Len(PatientOrder) : PatientOrder[i] = p

\* a list returned in the order it was built
Unsorted(s) == s

\* sorted(list): insertion of each element before the first greater one
RECURSIVE sorted(_)
sorted(s) ==
    IF s = << >> THEN << >>
    ELSE LET rest == sorted(Tail(s))
             x == Head(s)
             before(y) == Rank(y) < Rank(x)
             notbefore(y) == ~(Rank(y) < Rank(x))
         IN  SelectSeq(rest, before) \o <<x>> \o SelectSeq(rest, notbefore)

\* get_available_patients on the frame get_progress_df gave
get_available_patients(df, username, all_patients) ==
    LET completed == get_completed_patients(df, username)
        free(p) == p \notin completed
    IN  sorted(SelectSeq(all_patients, free))

\* the roster: one row per (patient, eye, visual field)
Roster ==
    { [maskedid |-> "P001", eye |-> "R", visual_field_number |-> 1],
      [maskedid |-> "P001", eye |-> "L", visual_field_number |-> 1],
      [maskedid |-> "P002", eye |-> "R", visual_field_number |-> 1] }

\* df[df["maskedid"] == maskedid]
RosterOf(maskedid) == {r \in Roster : r.maskedid = maskedid}

\* expected: {(str(eye), str(int(visual_field_number)))}
ExpectedPairs(df_patient) ==
    {<<r.eye, IntStr(r.visual_field_number)>> : r \in df_patient}

\* a completion test that takes the rows of every patient of the user
FoundAnyPatient(labels_rows, username, maskedid) ==
    { <<labels_rows[i].eye, labels_rows[i].vf_number>> :
        i \in {j \in 1..Len(labels_rows) : labels_rows[j].username = username} }

\* found: the (eye, vf_number) of the rows of this user and this patient
FoundPairs(labels_rows, username, maskedid) ==
    { <<labels_rows[i].eye, labels_rows[i].vf_number>> :
        i \in {j \in 1..Len(labels_rows) :
                 /\ labels_rows[j].username = username
                 /\ labels_rows[j].maskedid = maskedid} }

\* check_patient_completion on the frame get_all_labels_df gave
check_patient_completion(labels_df, username, maskedid, df_patient) ==
    /\ labels_df.found
    /\ ExpectedPairs(df_patient) \subseteq FoundPairs(labels_df.rows, username, maskedid)

\* the forms a field index can have in a roster frame: a Python int n, a
\* float n.0, the string "n", the string "n.0"
FieldForms == [kind : {"int", "float", "str", "strdec"}, n : {1, 2}]

\* the text "n.0"
DecStr(n) == CASE n = 1 -> "1.0" [] n = 2 -> "2.0" [] OTHER -> "3.0"

\* the texts a vf_number cell of the label sheet can come back as
CellTexts == {IntStr(1), DecStr(1), IntStr(2), DecStr(2)}

\* int(x): the integer of an int, a float or a digit string; ValueError
\* on a string with a decimal point
py_int(x) ==
    IF x.kind = "strdec" THEN [ok |-> FALSE, n |-> 0] ELSE [ok |-> TRUE, n |-> x.n]

\* labels_df["vf_number"].astype(str): values().get returns every cell as
\* text, and astype(str) leaves a text as it is (no int() on this side)
astype_str(text) == text

\* check_patient_completion on a roster frame whose visual_field_number
\* values have any of the forms: expected is str(int(v)), found is the
\* cell text after astype(str); an int() that raises makes the answer False
check_patient_completion_forms(labels_df, username, maskedid, df_patient) ==
    LET rows == labels_df.rows
        expected == {<<r.eye, IntStr(py_int(r.visual_field_number).n)>> : r \in df_patient}
        found == { <<rows[i].eye, astype_str(rows[i].vf_number)>> :
                     i \in {j \in 1..Len(rows) :
                              /\ rows[j].username = username
                              /\ rows[j].maskedid = maskedid} }
    IN  /\ labels_df.found
        /\ \A r \in df_patient : py_int(r.visual_field_number).ok
        /\ expected \subseteq found

\* the loop of auto_mark_completed_patients from position i on: df is the
\* frame every get_progress_df of the call returns, failing the patients
\* whose write raises.  Gives the sheet afterwards and newly_completed.
RECURSIVE AutoLoop(_, _, _, _, _, _, _, _)
AutoLoop(values, newly, df, labels_df, username, all_patients, i, failing) ==
    IF i > Len(all_patients) THEN [values |-> values, newly |-> newly]
    ELSE
      LET maskedid == all_patients[i]
          df_patient == RosterOf(maskedid)
          skip == \/ maskedid \in get_completed_patients(df, username)
                  \/ df_patient = {}
                  \/ ~(ExpectedPairs(df_patient) \subseteq FoundPairs(labels_df.rows, username, maskedid))
          w == write_progress_df(values, mark_df(df, username, maskedid), maskedid \notin failing)
      IN  IF skip
          THEN AutoLoop(values, newly, df, labels_df, username, all_patients, i + 1, failing)
          ELSE AutoLoop(w.values, IF w.ok THEN Append(newly, maskedid) ELSE newly,
                        df, labels_df, username, all_patients, i + 1, failing)

\* a label lookup of its own for every patient of the list
ReadsPerPatient(cache, all_patients) == Len(all_patients)

\* the reads of the label sheet one auto_mark_completed_patients issues:
\* that of its one get_all_labels_df, when the cached entry has expired
AutoLabelReads(cache, all_patients) == IF CacheHit(cache) THEN 0 ELSE 1

\* ------------------------------------------------------------ Cache Manager
\* capacity of each map (max_cache_size of the constructor)
max_cache_size == 2

\* most entries the label map is let grow to
MaxLabelEntries == 3

\* patient ids as str(patient_id) gives them, character by character
PatientIds == {<<"1", "2">>, <<"1", "2", "0">>, <<"7">>}

\* no timepoint (None), and one timepoint
NoTimepoint == << >>
Timepoints == {NoTimepoint, <<"T">>}

\* f"{patient_key}_{timepoint}" if timepoint else patient_key
cache_key(patient_key, timepoint) ==
    IF timepoint = NoTimepoint THEN patient_key ELSE patient_key \o <<"_">> \o timepoint

\* key.startswith(patient_key)
startswith(key, prefix) ==
    Len(key) >= Len(prefix) /\ SubSeq(key, 1, Len(prefix)) = prefix

\* an OrderedDict is the sequence of its entries, oldest first
DictKeys(d) == {d[i].key : i \in 1..Len(d)}

\* cache_dict.move_to_end(key)
move_to_end(d, key) ==
    LET other(e) == e.key # key
        this(e) == e.key = key
    IN  SelectSeq(d, other) \o SelectSeq(d, this)

\* cache_dict[key] = value: in place when the key is there, else at the end
SetItem(d, key, value) ==
    IF key \in DictKeys(d)
    THEN [i \in 1..Len(d) |-> IF d[i].key = key THEN [key |-> key, value |-> value] ELSE d[i]]
    ELSE Append(d, [key |-> key, value |-> value])

\* del cache_dict[key]
DelItem(d, key) ==
    LET other(e) == e.key # key IN SelectSeq(d, other)

\* while len(cache_dict) > max_cache_size: cache_dict.popitem(last=False)
PopOldest(d) ==
    IF Len(d) > max_cache_size THEN SubSeq(d, Len(d) - max_cache_size + 1, Len(d)) ELSE d

\* an update of the order that leaves a key that is there where it is
UpdateOrderNoMove(d, key) ==
    IF key \in DictKeys(d) THEN d ELSE PopOldest(SetItem(d, key, "empty"))

\* update_cache_order
update_cache_order(d, key) ==
    IF key \in DictKeys(d) THEN move_to_end(d, key)
    ELSE PopOldest(SetItem(d, key, "empty"))

\* cache_patient_images on the image map: a hit returns the entry; without
\* an image handler nothing is stored; else the images are loaded and stored
cache_patient_images(image_cache, patient_key, timepoint, image_handler) ==
    LET key == cache_key(patient_key, timepoint)
    IN  IF key \in DictKeys(image_cache) \/ ~image_handler THEN image_cache
        ELSE SetItem(update_cache_order(image_cache, key), key, "images")

\* cache_patient_labels on the label map: a hit returns the entry; else
\* dl.load_labels runs and, unless it raises, its result is stored
cache_patient_labels(labels_cache, patient_key, timepoint, loadOk) ==
    LET key == cache_key(patient_key, timepoint)
    IN  IF key \in DictKeys(labels_cache) \/ ~loadOk THEN labels_cache
        ELSE SetItem(update_cache_order(labels_cache, key), key, "loaded")

\* the key loops of clear_patient_cache on the image map and the label map
ClearByPrefix(d, patient_key) ==
    LET keep(e) == ~startswith(e.key, patient_key) IN SelectSeq(d, keep)

\* cache_patient_labels with the record dl.load_labels returns
cache_patient_labels_of(labels_cache, patient_key, timepoint, loadOk, previous_saved) ==
    LET key == cache_key(patient_key, timepoint)
    IN  IF key \in DictKeys(labels_cache) \/ ~loadOk THEN labels_cache
        ELSE SetItem(update_cache_order(labels_cache, key), key, previous_saved)

\* st.session_state.get('selected_patient', None) before the first render
NoPatient == << >>

\* CacheManager() before set_image_handler, with _initialize_caches done,
\* and the selected patient the session state keeps beside the maps
CacheManager ==
    [ image_handler |-> FALSE, patient_cache |-> << >>,
      image_cache |-> << >>, labels_cache |-> << >>,
      selected_patient |-> NoPatient ]

\* ------------------------------------------------------------ Image Handler
\* the image files the roster names, in ascending path order
ImagePaths == <<"a.png", "b.png", "c.png">>

\* what the disk holds for a path: a readable file, nothing, or a file
\* whose open or read raises OSError
PathStates == {"ok", "missing", "unreadable"}

\* the place of a path in ascending order
PathRank(p) == CHOOSE i \in 1..Len(ImagePaths) : ImagePaths[i] = p

\* the lists get_eye_images can return: sorted(image_files), a file may be
\* named by more than one row
ResolvedLists ==
    UNION { {s \in [1..n -> {ImagePaths[i] : i \in 1..Len(ImagePaths)}] :
               \A i \in 1..n, j \in 1..n : i < j => PathRank(s[i]) <= PathRank(s[j])}
            : n \in 0..3 }

\* a validation that keeps every path that exists
PreloadExisting(image_paths, disk) ==
    LET there(p) == disk[p] # "missing" IN SelectSeq(image_paths, there)

\* ImageHandler.preload_images_for_cache: the paths that exist and whose
\* first byte can be read, in the order given
preload_images_for_cache(image_paths, disk) ==
    LET valid(p) == disk[p] = "ok" IN SelectSeq(image_paths, valid)

\* image_data of cache_patient_images (loaded_at, a clock reading, left out)
image_data(patient_id, timepoint, resolved, disk) ==
    [ vf_od |-> preload_images_for_cache(resolved.vf_od, disk),
      vf_os |-> preload_images_for_cache(resolved.vf_os, disk),
      oct_od |-> preload_images_for_cache(resolved.oct_od, disk),
      oct_os |-> preload_images_for_cache(resolved.oct_os, disk),
      patient_id |-> patient_id,
      timepoint |-> timepoint ]

\* ------------------------------------------- Label Store: list and delete
\* f.endswith('.json')
endswith_json(f) == Len(f) >= 1 /\ f[Len(f)] = ".json"

\* a file filter that takes the files of the user, whatever the patient
FilesOfUser(fs, username, maskedid) ==
    {f \in DOMAIN fs : startswith(f, Tok(username) \o <<"_">>) /\ endswith_json(f)}

\* label_files: the names in label_dir that start with
\* f"{username}_{maskedid}_" and end with '.json'
label_files(fs, username, maskedid) ==
    { f \in DOMAIN fs :
        /\ startswith(f, Tok(username) \o <<"_">> \o Tok(maskedid) \o <<"_">>)
        /\ endswith_json(f) }

\* get_user_labels_for_patient: the dictionaries of the label files that
\* deserialize, by file (the list comes in directory order)
get_user_labels_for_patient(fs, username, maskedid) ==
    [f \in {g \in label_files(fs, username, maskedid) : fs[g].parses} |-> fs[f].dict]

\* the directory after os.remove of the given files
RemoveFiles(fs, removed) == [f \in DOMAIN fs \ removed |-> fs[f]]

\* ------------------------------------------------------------------- state
\* files: the label directory, file name -> content
\* sheet: the data rows of the label sheet (its header row is row 1)
\* progSheet: the rows of the progress_tracking sheet, header included
\* progCache, labelsCache: the st.cache_data entries of get_progress_df and
\*   get_all_labels_df, with their age
\* inflight: the mark_patient_completed and save_labels calls under way,
\*   each with what it has read and not yet written
\* hist: the rows of the progress sheet that were replaced and the time
\*   since, and the time since the sheet was last read
\* cm: the CacheManager: its image handler (set or not) and the three
\*   OrderedDicts it keeps in st.session_state, with the selected patient
\*   the page keeps there
\* lastOp: the last call and what it returned
VARIABLES files, sheet, progSheet, progCache, labelsCache, inflight, cm, hist, lastOp

vars == <<files, sheet, progSheet, progCache, labelsCache, inflight, cm, hist, lastOp>>

storeVars == <<files, sheet>>
trackerVars == <<progSheet, progCache, labelsCache, inflight>>

\* what is remembered of the past of the progress sheet: the rows of a
\* specialist that were replaced, each with the seconds since, the seconds
\* since the sheet was last read, and whether that read was served
NoHist == [replaced |-> {}, lastRead |-> -1, served |-> FALSE]

\* how the local write of a save ends
LocalOutcomes == {"ok", "open_err", "dump_err"}

\* how the remote half of a save goes: no service, the A:D read fails, the
\* write call fails, or everything works
RemoteOutcomes ==
    { [svc |-> FALSE, readOk |-> TRUE, writeOk |-> TRUE],
      [svc |-> TRUE, readOk |-> FALSE, writeOk |-> TRUE],
      [svc |-> TRUE, readOk |-> TRUE, writeOk |-> FALSE],
      [svc |-> TRUE, readOk |-> TRUE, writeOk |-> TRUE] }

NoOp == [op |-> "none"]

Init ==
    /\ files = << >>
    /\ sheet = << >>
    /\ progSheet = << >>
    /\ progCache = NoCache
    /\ labelsCache = NoCache
    /\ inflight = << >>
    /\ cm = CacheManager
    /\ hist = NoHist
    /\ lastOp = NoOp

\* DataLoader.save_labels.  lastOp records the call: avail says that both
\* backends worked and the identity had at most one row before the first
\* save of a run of saves of that identity; second says that it directly
\* follows an avail save of the same identity with another dictionary
SaveLabels(username, maskedid, eye, vf_number, labels_dict, out, rem) ==
    LET filepath == get_label_path(username, maskedid, eye, vf_number)
        local_saved == (out = "ok")
        remote == save_to_sheets(sheet, username, maskedid, eye, vf_number, labels_dict, rem.svc, rem.readOk, rem.writeOk)
        allOk == local_saved /\ rem.svc /\ rem.readOk /\ rem.writeOk
        sameId == /\ lastOp.op = "save"
                  /\ lastOp.username = username /\ lastOp.maskedid = maskedid
                  /\ lastOp.eye = eye /\ lastOp.vf_number = vf_number
        clean == RowCount(sheet, username, maskedid, eye, vf_number) <= 1
    IN  /\ Len(remote.values) <= MaxRows
        /\ files' = LocalWrite(files, filepath, labels_dict, out)
        /\ sheet' = remote.values
        /\ lastOp' =
              [ op |-> "save",
                username |-> username, maskedid |-> maskedid, eye |-> eye,
                vf_number |-> vf_number, labels |-> labels_dict,
                local_saved |-> local_saved, sheets_saved |-> remote.ok,
                configured |-> rem.svc, attempted |-> remote.attempted,
                result |-> SaveResult(local_saved, remote.ok),
                st_errors |-> st_errors(local_saved, rem.svc, remote.ok),
                avail |-> allOk /\ clean,
                second |-> allOk /\ sameId /\ lastOp.avail
                           /\ lastOp.labels # labels_dict ]
        /\ UNCHANGED <<cm, hist, trackerVars>>

StoreSpecialists == {"117"}
StorePatients == {"P001"}
StoreEyes == {"R"}

SaveAny ==
    \E u \in StoreSpecialists, m \in StorePatients, e \in StoreEyes, vf \in Fields :
      \E d \in Payloads, out \in LocalOutcomes, rem \in RemoteOutcomes :
        SaveLabels(u, m, e, vf, d, out, rem)

Next == SaveAny

Spec == Init /\ [][Next]_vars

\* how the remote half of a load goes: no service, the A:D read of the
\* lookup fails, the read of the matching row fails, or everything works
LoadOutcomes ==
    { [svc |-> FALSE, readOk |-> TRUE, rowReadOk |-> TRUE],
      [svc |-> TRUE, readOk |-> FALSE, rowReadOk |-> TRUE],
      [svc |-> TRUE, readOk |-> TRUE, rowReadOk |-> FALSE],
      [svc |-> TRUE, readOk |-> TRUE, rowReadOk |-> TRUE] }

\* DataLoader.load_labels
LoadLabels(username, maskedid, eye, vf_number, rem) ==
    /\ lastOp' = [ op |-> "load", username |-> username, maskedid |-> maskedid,
                   eye |-> eye, vf_number |-> vf_number,
                   svc |-> rem.svc, readOk |-> rem.readOk, rowReadOk |-> rem.rowReadOk,
                   result |-> load_labels(files, sheet, username, maskedid, eye, vf_number,
                                          rem.svc, rem.readOk, rem.rowReadOk) ]
    /\ UNCHANGED <<cm, hist, files, sheet, progSheet, progCache, labelsCache, inflight>>

LoadAny ==
    \E u \in StoreSpecialists, m \in StorePatients, e \in StoreEyes, vf \in Fields :
      \E rem \in LoadOutcomes : LoadLabels(u, m, e, vf, rem)

NextLoad == SaveAny \/ LoadAny

SpecLoad == Init /\ [][NextLoad]_vars

\* --------------------------------------------------- Progress Tracker calls
\* time passes: both cache entries age
Tick ==
    /\ progCache' = Age(progCache, TickStep)
    /\ labelsCache' = Age(labelsCache, TickStep)
    /\ lastOp' = [op |-> "tick"]
    /\ UNCHANGED <<cm, hist, files, sheet, progSheet, inflight>>

\* PatientTracker.get_completed_patients
GetCompleted(username, fetchOk) ==
    LET c == Cached(progCache, fetch_progress_df(progSheet, fetchOk))
    IN  /\ progCache' = c
        /\ lastOp' = [ op |-> "get", username |-> username,
                       completed |-> get_completed_patients(c.df, username) ]
        /\ UNCHANGED <<cm, hist, files, sheet, progSheet, labelsCache, inflight>>

\* PatientTracker.mark_patient_completed
MarkPatientCompleted(username, maskedid, fetchOk, writeOk) ==
    LET c == Cached(progCache, fetch_progress_df(progSheet, fetchOk))
        w == write_progress_df(progSheet, mark_df(c.df, username, maskedid), writeOk)
    IN  /\ Len(w.values) <= MaxProgRows + 1
        /\ progCache' = c
        /\ progSheet' = w.values
        /\ lastOp' = [ op |-> "mark", username |-> username, maskedid |-> maskedid,
                       remote_ok |-> (CacheHit(progCache) \/ fetchOk) /\ writeOk,
                       result |-> w.ok ]
        /\ UNCHANGED <<cm, hist, files, sheet, labelsCache, inflight>>

\* PatientTracker.reset_user_progress
ResetUserProgress(username, fetchOk, writeOk) ==
    LET c == Cached(progCache, fetch_progress_df(progSheet, fetchOk))
        known == UserIndex(c.df, username) # 0
        w == write_progress_df(progSheet, reset_df(c.df, username), writeOk)
    IN  /\ progCache' = c
        /\ progSheet' = IF known THEN w.values ELSE progSheet
        /\ lastOp' = [ op |-> "reset", username |-> username,
                       remote_ok |-> (CacheHit(progCache) \/ fetchOk) /\ writeOk,
                       result |-> known /\ w.ok ]
        /\ UNCHANGED <<cm, hist, files, sheet, labelsCache, inflight>>

\* PatientTracker.check_patient_completion
CheckPatientCompletion(username, maskedid, df_patient, fetchOk) ==
    LET c == Cached(labelsCache, fetch_all_labels_df(sheet, fetchOk))
    IN  /\ labelsCache' = c
        /\ lastOp' = [ op |-> "check", username |-> username, maskedid |-> maskedid,
                       df_patient |-> df_patient,
                       remote_ok |-> CacheHit(labelsCache) \/ fetchOk,
                       result |-> check_patient_completion(c.df, username, maskedid, df_patient) ]
        /\ UNCHANGED <<cm, hist, files, sheet, progSheet, progCache, inflight>>

\* PatientTracker.auto_mark_completed_patients with the roster as df
AutoMarkCompletedPatients(username, all_patients, labelsOk, fetchOk, failing) ==
    LET lc == Cached(labelsCache, fetch_all_labels_df(sheet, labelsOk))
        pc == Cached(progCache, fetch_progress_df(progSheet, fetchOk))
        remote_ok == /\ CacheHit(labelsCache) \/ labelsOk
                     /\ CacheHit(progCache) \/ fetchOk
                     /\ failing = {}
        out == AutoLoop(progSheet, << >>, pc.df, lc.df, username, all_patients, 1, failing)
    IN  /\ labelsCache' = lc
        /\ IF lc.df.found
           THEN /\ Len(out.values) <= MaxProgRows + 1
                /\ progCache' = pc
                /\ progSheet' = out.values
                /\ lastOp' = [ op |-> "auto", username |-> username,
                               remote_ok |-> remote_ok,
                               all_patients |-> all_patients,
                               label_reads |-> AutoLabelReads(labelsCache, all_patients),
                               labels_df |-> lc.df,
                               newly |-> out.newly ]
           ELSE /\ UNCHANGED <<progCache, progSheet>>
                /\ lastOp' = [ op |-> "auto", username |-> username,
                               remote_ok |-> remote_ok,
                               all_patients |-> all_patients,
                               label_reads |-> AutoLabelReads(labelsCache, all_patients),
                               labels_df |-> lc.df,
                               newly |-> << >> ]
        /\ UNCHANGED <<cm, hist, files, sheet, inflight>>

\* PatientTracker.get_available_patients
GetAvailablePatients(username, all_patients, fetchOk) ==
    LET c == Cached(progCache, fetch_progress_df(progSheet, fetchOk))
    IN  /\ progCache' = c
        /\ lastOp' = [ op |-> "available", username |-> username,
                       all_patients |-> all_patients,
                       result |-> get_available_patients(c.df, username, all_patients) ]
        /\ UNCHANGED <<cm, hist, files, sheet, progSheet, labelsCache, inflight>>

\* the patients of the roster file, one of them never marked here
AllPatients == {"P001", "P002", "P003"}

\* the patient lists a caller hands over: every order of every subset
PatientLists ==
    UNION { {s \in [1..n -> AllPatients] : \A i, j \in 1..n : s[i] = s[j] => i = j} : n \in 0..3 }

\* the calls of two specialists on the progress sheet alone
MarkAny ==
    \E u \in Specialists, m \in Patients, fetchOk \in BOOLEAN, writeOk \in BOOLEAN :
        MarkPatientCompleted(u, m, fetchOk, writeOk)

ResetAny ==
    \E u \in Specialists, fetchOk \in BOOLEAN, writeOk \in BOOLEAN :
        ResetUserProgress(u, fetchOk, writeOk)

GetAny ==
    \E u \in Specialists, fetchOk \in BOOLEAN : GetCompleted(u, fetchOk)

NextProgress == MarkAny \/ ResetAny \/ GetAny \/ Tick

SpecProgress == Init /\ [][NextProgress]_vars

\* one specialist saving labels of the roster and checking completion
TrackerUser == "117"

\* one specialist marking patients and asking for the patients left
MarkOwn ==
    \E m \in Patients, fetchOk \in BOOLEAN, writeOk \in BOOLEAN :
        MarkPatientCompleted(TrackerUser, m, fetchOk, writeOk)

AvailableAny ==
    \E all_patients \in PatientLists, fetchOk \in BOOLEAN :
        GetAvailablePatients(TrackerUser, all_patients, fetchOk)

NextAvailable == MarkOwn \/ AvailableAny \/ Tick

SpecAvailable == Init /\ [][NextAvailable]_vars

\* the roster rows a caller may hand to check_patient_completion for a patient
PatientRows(maskedid) ==
    { [maskedid |-> maskedid, eye |-> e, visual_field_number |-> 1] : e \in Eyes }

TrackerSave ==
    \E r \in Roster, rem \in {x \in RemoteOutcomes : x.readOk /\ x.writeOk} :
        SaveLabels(TrackerUser, r.maskedid, r.eye, r.visual_field_number, [normality |-> "Normal"], "ok", rem)

CheckAny ==
    \E m \in Patients, fetchOk \in BOOLEAN :
      \E df_patient \in SUBSET PatientRows(m) \ {{}} :
        CheckPatientCompletion(TrackerUser, m, df_patient, fetchOk)

AutoAny ==
    \E all_patients \in {<<"P001", "P002">>, <<"P002", "P001">>} :
      \E labelsOk \in BOOLEAN, fetchOk \in BOOLEAN, failing \in {{}, {"P001"}} :
        AutoMarkCompletedPatients(TrackerUser, all_patients, labelsOk, fetchOk, failing)

NextTracker == TrackerSave \/ CheckAny \/ AutoAny \/ Tick

SpecTracker == Init /\ [][NextTracker]_vars

\* ------------------------------------- field index forms in the completion check
\* a label row of the tracked specialist for patient P001 whose vf_number
\* cell reads as the given text
StoredRow(eye, text) ==
    [row_data(TrackerUser, "P001", eye, 1, [normality |-> "Normal"]) EXCEPT !.vf_number = text]

\* the label sheets the check is run on: up to two such rows
StoredSheets ==
    {<< >>} \cup {<<StoredRow("R", a)>> : a \in CellTexts}
           \cup {<<StoredRow("R", a), StoredRow(e, b)>> : a \in CellTexts, b \in CellTexts, e \in Eyes}

InitForms ==
    /\ files = << >>
    /\ sheet \in StoredSheets
    /\ progSheet = << >>
    /\ progCache = NoCache
    /\ labelsCache = NoCache
    /\ inflight = << >>
    /\ cm = CacheManager
    /\ hist = NoHist
    /\ lastOp = NoOp

\* check_patient_completion with a roster frame of one or two rows of eye R
CheckForms(username, maskedid, df_patient) ==
    LET c == Cached(labelsCache, fetch_all_labels_df(sheet, TRUE))
    IN  /\ labelsCache' = c
        /\ lastOp' = [ op |-> "check_forms", username |-> username, maskedid |-> maskedid,
                       df_patient |-> df_patient,
                       result |-> check_patient_completion_forms(c.df, username, maskedid, df_patient) ]
        /\ UNCHANGED <<cm, hist, files, sheet, progSheet, progCache, inflight>>

FormRows == {[maskedid |-> "P001", eye |-> "R", visual_field_number |-> v] : v \in FieldForms}

CheckFormsAny ==
    \E df_patient \in {S \in SUBSET FormRows : Cardinality(S) \in {1, 2}} :
        CheckForms(TrackerUser, "P001", df_patient)

NextForms == CheckFormsAny \/ Tick

SpecForms == InitForms /\ [][NextForms]_vars

\* ------------------------------------------- Label Store: delete and list calls
\* DataLoader.delete_user_labels_for_patient.  has_dir: label_dir exists;
\* failing: the file whose os.remove raises (none when it is no label
\* file); removed: the label files removed before that, in directory order
DeleteUserLabelsForPatient(username, maskedid, has_dir, failing, removed) ==
    LET matching == label_files(files, username, maskedid)
        raised == has_dir /\ failing \in matching
    IN  /\ has_dir \/ files = << >>
        /\ removed = IF ~has_dir THEN {}
                     ELSE IF raised THEN removed \cap (matching \ {failing})
                     ELSE matching
        /\ files' = RemoveFiles(files, removed)
        /\ lastOp' = [ op |-> "delete", username |-> username, maskedid |-> maskedid,
                       has_dir |-> has_dir, raised |-> raised,
                       removed |-> Cardinality(removed), result |-> ~raised ]
        /\ UNCHANGED <<cm, hist, sheet, trackerVars>>

\* DataLoader.get_user_labels_for_patient
GetUserLabelsForPatient(username, maskedid, has_dir) ==
    /\ has_dir \/ files = << >>
    /\ lastOp' = [ op |-> "list", username |-> username, maskedid |-> maskedid,
                   result |-> IF has_dir THEN get_user_labels_for_patient(files, username, maskedid)
                              ELSE EmptyDict ]
    /\ UNCHANGED <<cm, hist, files, sheet, trackerVars>>

\* the label files one specialist can have for the two patients
LocalPaths == {get_label_path(TrackerUser, m, "R", vf) : m \in Patients, vf \in Fields}

\* saves of one specialist that reach the local directory only
SaveLocalAny ==
    \E m \in Patients, vf \in Fields, out \in {"ok", "dump_err"} :
        SaveLabels(TrackerUser, m, "R", vf, [normality |-> "Normal"], out,
                   [svc |-> FALSE, readOk |-> TRUE, writeOk |-> TRUE])

DeleteAny ==
    \E m \in Patients, has_dir \in BOOLEAN :
      \E failing \in LocalPaths \cup {<< >>}, removed \in SUBSET LocalPaths :
        DeleteUserLabelsForPatient(TrackerUser, m, has_dir, failing, removed)

ListAny ==
    \E m \in Patients, has_dir \in BOOLEAN : GetUserLabelsForPatient(TrackerUser, m, has_dir)

NextDelete == SaveLocalAny \/ DeleteAny \/ ListAny

SpecDelete == Init /\ [][NextDelete]_vars

\* ------------------------------------- identifiers that have '_' in them
PathUsers == {"a", "a_b"}
PathPatients == {"b_c", "c"}

\* the label files of these identities
PathFiles == {get_label_path(u, m, "R", 1) : u \in PathUsers, m \in PathPatients}

LocalOnly == [svc |-> FALSE, readOk |-> TRUE, writeOk |-> TRUE]

NextPaths ==
    \/ \E u \in PathUsers, m \in PathPatients, d \in Payloads :
          SaveLabels(u, m, "R", 1, d, "ok", LocalOnly)
    \/ \E u \in PathUsers, m \in PathPatients :
          LoadLabels(u, m, "R", 1, [svc |-> FALSE, readOk |-> TRUE, rowReadOk |-> TRUE])
    \/ \E u \in PathUsers, m \in PathPatients, removed \in SUBSET PathFiles :
          DeleteUserLabelsForPatient(u, m, TRUE, << >>, removed)
    \/ \E u \in PathUsers, m \in PathPatients : GetUserLabelsForPatient(u, m, TRUE)

SpecPaths == Init /\ [][NextPaths]_vars

\* ------------------------------------------------------ Cache Manager calls
otherVars == <<files, sheet, progSheet, progCache, labelsCache, inflight, hist>>

\* CacheManager.set_image_handler
SetImageHandler ==
    /\ cm' = [cm EXCEPT !.image_handler = TRUE]
    /\ lastOp' = [op |-> "set_image_handler"]
    /\ UNCHANGED otherVars

\* CacheManager.get_cached_patient_data: the patient map is touched, then
\* the images and the labels are got or loaded; a load_labels that raises
\* ends the call after the first two maps were updated
GetCachedPatientData(patient_id, loadOk) ==
    /\ cm' = [cm EXCEPT
                !.patient_cache = update_cache_order(@, patient_id),
                !.image_cache = cache_patient_images(@, patient_id, NoTimepoint, cm.image_handler),
                !.labels_cache = cache_patient_labels(@, patient_id, NoTimepoint, loadOk)]
    /\ lastOp' = [op |-> "get_cached_patient_data", key |-> patient_id]
    /\ UNCHANGED otherVars

\* CacheManager.cache_patient_images
CachePatientImages(patient_id, timepoint) ==
    /\ cm' = [cm EXCEPT
                !.image_cache = cache_patient_images(@, patient_id, timepoint, cm.image_handler)]
    /\ lastOp' = [op |-> "cache_patient_images", key |-> cache_key(patient_id, timepoint)]
    /\ UNCHANGED otherVars

\* CacheManager.cache_patient_labels
CachePatientLabels(patient_id, timepoint, loadOk) ==
    /\ cm' = [cm EXCEPT
                !.labels_cache = cache_patient_labels(@, patient_id, timepoint, loadOk)]
    /\ lastOp' = [op |-> "cache_patient_labels", key |-> cache_key(patient_id, timepoint)]
    /\ UNCHANGED otherVars

\* CacheManager.update_labels_cache
UpdateLabelsCache(patient_id, timepoint) ==
    /\ Len(SetItem(cm.labels_cache, cache_key(patient_id, timepoint), "saved")) <= MaxLabelEntries
    /\ cm' = [cm EXCEPT
                !.labels_cache = SetItem(@, cache_key(patient_id, timepoint), "saved")]
    /\ lastOp' = [op |-> "update_labels_cache", key |-> cache_key(patient_id, timepoint)]
    /\ UNCHANGED otherVars

\* CacheManager.clear_patient_cache
ClearPatientCache(patient_id) ==
    /\ cm' = [cm EXCEPT
                !.patient_cache = DelItem(@, patient_id),
                !.image_cache = ClearByPrefix(@, patient_id),
                !.labels_cache = ClearByPrefix(@, patient_id)]
    /\ lastOp' = [op |-> "clear_patient_cache", key |-> patient_id]
    /\ UNCHANGED otherVars

\* CacheManager.clear_cache
ClearCache ==
    /\ cm' = [cm EXCEPT !.patient_cache = << >>, !.image_cache = << >>,
                        !.labels_cache = << >>]
    /\ lastOp' = [op |-> "clear_cache"]
    /\ UNCHANGED otherVars

\* the (patient, timepoint) pairs the direct calls are made with
CacheCalls ==
    {<<p, NoTimepoint>> : p \in PatientIds} \cup {<< <<"1", "2">>, <<"T">> >>}

NextCache ==
    \/ SetImageHandler
    \/ \E p \in PatientIds, loadOk \in BOOLEAN : GetCachedPatientData(p, loadOk)
    \/ \E c \in CacheCalls : CachePatientImages(c[1], c[2])
    \/ \E c \in CacheCalls, loadOk \in BOOLEAN : CachePatientLabels(c[1], c[2], loadOk)
    \/ \E c \in CacheCalls : UpdateLabelsCache(c[1], c[2])
    \/ \E p \in PatientIds : ClearPatientCache(p)
    \/ ClearCache

SpecCache == Init /\ [][NextCache]_vars

\* patients selected one after the other, and the caches cleared
NextSelect ==
    \/ SetImageHandler
    \/ \E p \in PatientIds, loadOk \in BOOLEAN : GetCachedPatientData(p, loadOk)
    \/ \E p \in PatientIds : ClearPatientCache(p)
    \/ ClearCache

SpecSelect == Init /\ [][NextSelect]_vars

\* ---------------------------------------------------------- the labeling page
\* the specialist of the session, and the pair a patient's record is kept
\* under in the Label Store
PageUser == "117"
PageEye == "R"
PageField == 1

\* how the local write of a save made from the page ends
PageLocalOutcomes == {"ok", "open_err"}

\* the patients of the sidebar
PagePatients == {<<"1", "2">>, <<"7">>}

\* the remote side during a call made from the page: absent, or working
PageSaveOutcomes == {r \in RemoteOutcomes : r.readOk /\ r.writeOk}
PageLoadOutcomes == {r \in LoadOutcomes : r.readOk /\ r.rowReadOk}

\* labeling_page up to the choice between the image map and the fallback:
\* a new CacheManager gets the image handler, then handle_patient_selection
\* loads the patient when the selection changed.  A load_labels that raises
\* ends the render before the selection is stored
Render(selected, loadOk, rem) ==
    LET patient_changed == cm.selected_patient # selected
        previous_saved == load_labels(files, sheet, PageUser, selected, PageEye, PageField,
                                      rem.svc, rem.readOk, rem.rowReadOk)
        handled == ~patient_changed \/ loadOk
        after ==
            IF patient_changed
            THEN [cm EXCEPT
                    !.image_handler = TRUE,
                    !.patient_cache = update_cache_order(@, selected),
                    !.image_cache = cache_patient_images(@, selected, NoTimepoint, TRUE),
                    !.labels_cache = cache_patient_labels_of(@, selected, NoTimepoint, loadOk, previous_saved),
                    !.selected_patient = IF loadOk THEN selected ELSE @]
            ELSE [cm EXCEPT !.image_handler = TRUE]
    IN  /\ cm' = after
        /\ lastOp' = [ op |-> "render", selected |-> selected, handled |-> handled,
                       changed |-> patient_changed,
                       fallback |-> handled /\ selected \notin DictKeys(after.image_cache) ]
        /\ UNCHANGED otherVars

\* save_labels_data for the selected patient: dl.save_labels, whose result
\* is not looked at, then update_labels_cache
PageSave(labels_dict, out, rem) ==
    LET selected == cm.selected_patient
        filepath == get_label_path(PageUser, selected, PageEye, PageField)
        remote == save_to_sheets(sheet, PageUser, selected, PageEye, PageField, labels_dict,
                                 rem.svc, rem.readOk, rem.writeOk)
    IN  /\ selected # NoPatient
        /\ Len(remote.values) <= MaxRows
        /\ files' = LocalWrite(files, filepath, labels_dict, out)
        /\ sheet' = remote.values
        /\ cm' = [cm EXCEPT !.labels_cache = SetItem(@, cache_key(selected, NoTimepoint), Some(labels_dict))]
        /\ lastOp' = [ op |-> "page_save", selected |-> selected, labels |-> labels_dict,
                       success |-> SaveResult(out = "ok", remote.ok) ]
        /\ UNCHANGED <<progSheet, progCache, labelsCache, inflight, hist>>

NextPage ==
    \/ \E p \in PagePatients, loadOk \in BOOLEAN, rem \in PageLoadOutcomes : Render(p, loadOk, rem)
    \/ \E d \in Payloads, out \in PageLocalOutcomes, rem \in PageSaveOutcomes : PageSave(d, out, rem)
    \/ \E p \in PagePatients : ClearPatientCache(p)
    \/ ClearCache

SpecPage == Init /\ [][NextPage]_vars

\* ------------------------------------------------- loading images on a miss
\* the value stored under a key
ItemOf(d, key) == d[CHOOSE i \in 1..Len(d) : d[i].key = key].value

\* CacheManager.cache_patient_images with the lists the resolver gives on
\* a miss and the state of the disk while they are validated
CacheImagesResolved(patient_id, timepoint, resolved, disk) ==
    LET key == cache_key(patient_id, timepoint)
        data == image_data(patient_id, timepoint, resolved, disk)
    IN  /\ key \notin DictKeys(cm.image_cache)
        /\ cm.image_handler
        /\ cm' = [cm EXCEPT !.image_cache = SetItem(update_cache_order(@, key), key, data)]
        /\ lastOp' = [ op |-> "cache_images", key |-> key, hit |-> FALSE,
                       resolved |-> resolved, disk |-> disk, result |-> data ]
        /\ UNCHANGED otherVars

\* the same call on a hit
CacheImagesHit(patient_id, timepoint) ==
    LET key == cache_key(patient_id, timepoint)
    IN  /\ key \in DictKeys(cm.image_cache)
        /\ lastOp' = [ op |-> "cache_images", key |-> key, hit |-> TRUE,
                       result |-> ItemOf(cm.image_cache, key) ]
        /\ UNCHANGED <<cm, hist, otherVars>>

\* the four lists of one resolver answer
ResolverAnswers ==
    [ vf_od : ResolvedLists, vf_os : {<< >>, <<"a.png", "b.png">>},
      oct_od : {<< >>, <<"c.png">>}, oct_os : {<<"b.png", "c.png">>} ]

DiskStates == [{ImagePaths[i] : i \in 1..Len(ImagePaths)} -> PathStates]

NextImages ==
    \/ SetImageHandler
    \/ \E resolved \in ResolverAnswers, disk \in DiskStates :
          CacheImagesResolved(<<"7">>, NoTimepoint, resolved, disk)
    \/ CacheImagesHit(<<"7">>, NoTimepoint)
    \/ ClearCache

SpecImages == Init /\ [][NextImages]_vars

\* ------------------------------------------------- the age of what is read
\* ages are followed up to one step past the ttl
HistCap == TTL + TickStep

Older(age) == IF age + TickStep > HistCap THEN HistCap ELSE age + TickStep

\* the row of a specialist in a frame: a sequence of one row, or of none
RowOf(df, username) ==
    LET idx == UserIndex(df, username)
    IN  IF idx = 0 THEN << >> ELSE <<df[idx]>>

\* the row of the specialist that the sheet holds
CurrentRow(values, username) == RowOf(fetch_progress_df(values, TRUE), username)

\* the replaced rows after the sheet went from values to written
Replaced(h, values, written, username) ==
    LET old == CurrentRow(values, username)
        new == CurrentRow(written, username)
        rest == {e \in h.replaced : e.row # new /\ e.row # old}
    IN  IF old = new THEN h.replaced
        ELSE rest \cup {[row |-> old, age |-> 0]}

\* the history after a call that went through get_progress_df and left
\* the sheet as written
HistAfter(h, cache, fetchOk, values, written, username) ==
    [ replaced |-> Replaced(h, values, written, username),
      lastRead |-> IF CacheHit(cache) THEN h.lastRead ELSE 0,
      served |-> IF CacheHit(cache) THEN h.served ELSE fetchOk ]

\* time passes
TimedTick ==
    /\ progCache' = Age(progCache, TickStep)
    /\ labelsCache' = Age(labelsCache, TickStep)
    /\ hist' = [ replaced |-> {[row |-> e.row, age |-> Older(e.age)] : e \in hist.replaced},
                 lastRead |-> IF hist.lastRead < 0 THEN -1 ELSE Older(hist.lastRead),
                 served |-> hist.served ]
    /\ lastOp' = [op |-> "tick"]
    /\ UNCHANGED <<cm, files, sheet, progSheet, inflight>>

\* PatientTracker.get_completed_patients
TimedGetCompleted(username, fetchOk) ==
    LET c == Cached(progCache, fetch_progress_df(progSheet, fetchOk))
    IN  /\ progCache' = c
        /\ hist' = HistAfter(hist, progCache, fetchOk, progSheet, progSheet, username)
        /\ lastOp' = [ op |-> "get", username |-> username,
                       completed |-> get_completed_patients(c.df, username),
                       row |-> RowOf(c.df, username),
                       read |-> ~CacheHit(progCache),
                       served |-> IF CacheHit(progCache) THEN hist.served ELSE fetchOk ]
        /\ UNCHANGED <<cm, files, sheet, progSheet, labelsCache, inflight>>

\* PatientTracker.mark_patient_completed
TimedMarkPatientCompleted(username, maskedid, fetchOk, writeOk) ==
    LET c == Cached(progCache, fetch_progress_df(progSheet, fetchOk))
        w == write_progress_df(progSheet, mark_df(c.df, username, maskedid), writeOk)
    IN  /\ Len(w.values) <= MaxProgRows + 1
        /\ progCache' = c
        /\ progSheet' = w.values
        /\ hist' = HistAfter(hist, progCache, fetchOk, progSheet, w.values, username)
        /\ lastOp' = [ op |-> "mark", username |-> username, maskedid |-> maskedid,
                       result |-> w.ok ]
        /\ UNCHANGED <<cm, files, sheet, labelsCache, inflight>>

\* PatientTracker.reset_user_progress
TimedResetUserProgress(username, fetchOk, writeOk) ==
    LET c == Cached(progCache, fetch_progress_df(progSheet, fetchOk))
        known == UserIndex(c.df, username) # 0
        w == write_progress_df(progSheet, reset_df(c.df, username), writeOk)
        written == IF known THEN w.values ELSE progSheet
    IN  /\ progCache' = c
        /\ progSheet' = written
        /\ hist' = HistAfter(hist, progCache, fetchOk, progSheet, written, username)
        /\ lastOp' = [ op |-> "reset", username |-> username,
                       result |-> known /\ w.ok ]
        /\ UNCHANGED <<cm, files, sheet, labelsCache, inflight>>

NextTimed ==
    \/ \E m \in Patients, fetchOk \in BOOLEAN, writeOk \in BOOLEAN :
          TimedMarkPatientCompleted(TrackerUser, m, fetchOk, writeOk)
    \/ \E fetchOk \in BOOLEAN, writeOk \in BOOLEAN :
          TimedResetUserProgress(TrackerUser, fetchOk, writeOk)
    \/ \E fetchOk \in BOOLEAN : TimedGetCompleted(TrackerUser, fetchOk)
    \/ TimedTick

SpecTimed == Init /\ [][NextTimed]_vars

\* ---------------------------------------- two sessions saving one identity
\* two browser sessions of one specialist
Sessions == {"tab1", "tab2"}

\* save_labels up to the start of _save_to_sheets: the local file is
\* written (the with block taken as one step)
SaveLocal(session, labels_dict) ==
    /\ session \notin DOMAIN inflight
    /\ files' = LocalWrite(files, get_label_path("117", "P001", "R", 1), labels_dict, "ok")
    /\ inflight' = [ s \in DOMAIN inflight \cup {session} |->
                       IF s = session
                       THEN [pc |-> "lookup", labels |-> labels_dict, existing_row |-> 0]
                       ELSE inflight[s] ]
    /\ lastOp' = [op |-> "save_local", session |-> session]
    /\ UNCHANGED <<cm, hist, sheet, progSheet, progCache, labelsCache>>

\* _save_to_sheets up to the answer of _find_existing_row
SaveLookup(session) ==
    /\ session \in DOMAIN inflight
    /\ inflight[session].pc = "lookup"
    /\ inflight' = [inflight EXCEPT ![session] =
                      [@ EXCEPT !.pc = "write",
                                !.existing_row = find_existing_row(sheet, "117", "P001", "R", 1, TRUE)]]
    /\ lastOp' = [op |-> "save_lookup", session |-> session]
    /\ UNCHANGED <<cm, hist, files, sheet, progSheet, progCache, labelsCache>>

\* the rest of _save_to_sheets: update of the row found, or append
SaveWrite(session) ==
    /\ session \in DOMAIN inflight
    /\ inflight[session].pc = "write"
    /\ LET data == row_data("117", "P001", "R", 1, inflight[session].labels)
           row == inflight[session].existing_row
           values == IF row # 0 THEN SheetUpdateRow(sheet, row, data)
                     ELSE SheetAppendRow(sheet, data)
       IN  /\ Len(values) <= MaxRows
           /\ sheet' = values
    /\ inflight' = [s \in DOMAIN inflight \ {session} |-> inflight[s]]
    /\ lastOp' = [ op |-> "save_write", session |-> session,
                   labels |-> inflight[session].labels ]
    /\ UNCHANGED <<cm, hist, files, progSheet, progCache, labelsCache>>

NextSaveConc ==
    \/ \E s \in Sessions, labels_dict \in Payloads : SaveLocal(s, labels_dict)
    \/ \E s \in Sessions : SaveLookup(s)
    \/ \E s \in Sessions : SaveWrite(s)

SpecSaveConc == Init /\ [][NextSaveConc]_vars

\* ------------------------------------------- two specialists marking at once
\* mark_patient_completed up to its read: the frame it will write is built
MarkRead(username, maskedid, fetchOk) ==
    LET c == Cached(progCache, fetch_progress_df(progSheet, fetchOk))
    IN  /\ username \notin DOMAIN inflight
        /\ progCache' = c
        /\ inflight' = [ u \in DOMAIN inflight \cup {username} |->
                           IF u = username
                           THEN [ pc |-> "read", maskedid |-> maskedid,
                                  df |-> mark_df(c.df, username, maskedid),
                                  result |-> FALSE ]
                           ELSE inflight[u] ]
        /\ lastOp' = [op |-> "mark_read", username |-> username, maskedid |-> maskedid]
        /\ UNCHANGED <<cm, hist, files, sheet, progSheet, labelsCache>>

\* the rest of mark_patient_completed: _write_progress_df of that frame
MarkWrite(username, writeOk) ==
    /\ username \in DOMAIN inflight
    /\ inflight[username].pc = "read"
    /\ LET w == write_progress_df(progSheet, inflight[username].df, writeOk)
       IN  /\ progSheet' = w.values
           /\ inflight' = [inflight EXCEPT ![username] =
                             [@ EXCEPT !.pc = "done", !.result = w.ok, !.df = << >>]]
           /\ lastOp' = [ op |-> "mark", username |-> username,
                          maskedid |-> inflight[username].maskedid,
                          remote_ok |-> writeOk, result |-> w.ok ]
    /\ UNCHANGED <<cm, hist, files, sheet, progCache, labelsCache>>

MarkReadAny ==
    \E u \in Specialists, m \in Patients, fetchOk \in BOOLEAN : MarkRead(u, m, fetchOk)

MarkWriteAny ==
    \E u \in Specialists, writeOk \in BOOLEAN : MarkWrite(u, writeOk)

NextConc == MarkReadAny \/ MarkWriteAny \/ Tick

SpecConc == Init /\ [][NextConc]_vars

\* ---------------------------------------------------------- Label Store claims
\* the file of the identity of the last save
LastPath == get_label_path(lastOp.username, lastOp.maskedid, lastOp.eye, lastOp.vf_number)

\* the rows of the identity of the last save
LastRows ==
    {i \in 1..Len(sheet) : RowMatches(sheet[i], lastOp.username, lastOp.maskedid, lastOp.eye, lastOp.vf_number)}

\* what a load of the identity of the last save returns, for every way the
\* remote side can behave during the load
LastLoads ==
    { load_labels(files, sheet, lastOp.username, lastOp.maskedid, lastOp.eye, lastOp.vf_number, svc, readOk, rowReadOk) :
        svc \in BOOLEAN, readOk \in BOOLEAN, rowReadOk \in BOOLEAN }

\* C1: with both backends available, a save of an identity followed by a
\* save of the same identity with another dictionary leaves one local file
\* and one sheet row for the identity, both with the second dictionary, and
\* a load returns the second dictionary
C1_UpsertTwice ==
    (lastOp.op = "save" /\ lastOp.second) =>
        /\ LastPath \in DOMAIN files
        /\ files[LastPath] = Json(lastOp.labels)
        /\ Cardinality(LastRows) = 1
        /\ \A i \in LastRows :
              sheet[i] = row_data(lastOp.username, lastOp.maskedid, lastOp.eye, lastOp.vf_number, lastOp.labels)
        /\ LastLoads = {Some(lastOp.labels)}

\* a second save of an identity has happened while another identity also
\* has a row
C1_Witness ==
    /\ lastOp.op = "save"
    /\ lastOp.second
    /\ Len(sheet) >= 2
    /\ Cardinality(LastRows) = 1

\* C2: no two rows of the label sheet carry the same identity, whatever
\* failed during the saves
C2_NoDuplicateRows ==
    \A u \in Specialists, m \in Patients, e \in Eyes, vf \in Fields :
        RowCount(sheet, u, m, e, vf) <= 1

\* C3: a save returns true exactly when the local write or the remote
\* upsert succeeded; a successful write is in its sink afterwards, and the
\* remote write is attempted whenever a service exists, also after a local
\* failure
C3_SaveEitherSink ==
    lastOp.op = "save" =>
    /\ lastOp.result <=> (lastOp.local_saved \/ lastOp.sheets_saved)
    /\ lastOp.local_saved =>
          LastPath \in DOMAIN files /\ files[LastPath] = Json(lastOp.labels)
    /\ lastOp.sheets_saved =>
          \E i \in LastRows :
            sheet[i] = row_data(lastOp.username, lastOp.maskedid, lastOp.eye, lastOp.vf_number, lastOp.labels)
    /\ lastOp.configured => lastOp.attempted

\* the local write failed and the remote upsert of the same save succeeded
C3_Witness ==
    /\ lastOp.op = "save"
    /\ ~lastOp.local_saved
    /\ lastOp.sheets_saved
    /\ lastOp.result

\* ----------------------------------------------------- Progress Tracker claims
\* the data rows a read of the progress sheet gives now
ProgRows == fetch_progress_df(progSheet, TRUE)

\* the completion set of a specialist as the progress sheet holds it
PersistedCompleted(username) == get_completed_patients(ProgRows, username)

\* the first row of a specialist in the progress sheet
PersistedRow(username) ==
    IF UserIndex(ProgRows, username) = 0 THEN [username |-> ""]
    ELSE ProgRows[UserIndex(ProgRows, username)]

\* what get_completed_patients returns now without a failing read
CompletedNow(username) ==
    get_completed_patients(Cached(progCache, ProgRows).df, username)

\* the specialist has a record of every roster row of the patient: a load
\* of each identity returns one
AllRecorded(username, maskedid) ==
    \A r \in RosterOf(maskedid) :
        load_labels(files, sheet, username, maskedid, r.eye, r.visual_field_number, TRUE, TRUE, TRUE).found

Range(s) == {s[i] : i \in 1..Len(s)}

\* C4: a mark by a specialist whose remote calls succeed never takes a
\* patient out of that specialist's persisted completion set
C4_CompletionGrows ==
    [][ \A u \in Specialists :
          (lastOp'.op = "mark" /\ lastOp'.username = u /\ lastOp'.remote_ok)
              => PersistedCompleted(u) \subseteq PersistedCompleted(u)' ]_vars

\* C5: once two specialists have both marked a patient with success, each
\* one's patient is in that specialist's persisted completion set
C5_BothMarksPresent ==
    (\A u \in Specialists :
        u \in DOMAIN inflight /\ inflight[u].pc = "done" /\ inflight[u].result)
    => \A u \in Specialists : inflight[u].maskedid \in PersistedCompleted(u)

\* C6 as stated: a completion check is true exactly when the specialist
\* has a record, local or remote, for every pair of the rows given
C6_CheckIffRecords ==
    (lastOp.op = "check" /\ lastOp.remote_ok) =>
        ( lastOp.result <=>
            \A r \in lastOp.df_patient :
                load_labels(files, sheet, lastOp.username, lastOp.maskedid, r.eye, r.visual_field_number, TRUE, TRUE, TRUE).found )

\* C6 amended: a completion check is true exactly when the bulk read of
\* the label sheet it used (cached for up to 30 s, empty when it failed)
\* holds, for every pair of the rows given, a row of that specialist and
\* patient; with that read fixed, a pair outside it makes any check false
C6_CheckIffSnapshot ==
    lastOp.op = "check" =>
        LET rows == labelsCache.df.rows
            has(e, vf) ==
                \E i \in 1..Len(rows) :
                    /\ rows[i].username = lastOp.username
                    /\ rows[i].maskedid = lastOp.maskedid
                    /\ rows[i].eye = e
                    /\ rows[i].vf_number = IntStr(vf)
        IN  /\ lastOp.result <=>
                ( /\ labelsCache.df.found
                  /\ \A r \in lastOp.df_patient : has(r.eye, r.visual_field_number) )
            /\ \A q \in PatientRows(lastOp.maskedid) :
                  ~has(q.eye, q.visual_field_number) =>
                      ~check_patient_completion(labelsCache.df, lastOp.username, lastOp.maskedid, lastOp.df_patient \cup {q})

\* a check of one pair came out true on a read that holds rows of both
\* patients of the specialist and lacks the other pair of the patient
C6_Witness ==
    /\ lastOp.op = "check"
    /\ lastOp.result
    /\ Cardinality(lastOp.df_patient) = 1
    /\ \E i \in 1..Len(labelsCache.df.rows) :
          labelsCache.df.rows[i].maskedid # lastOp.maskedid
    /\ \E q \in PatientRows(lastOp.maskedid) :
          ~check_patient_completion(labelsCache.df, lastOp.username, lastOp.maskedid, {q})

\* C7: with every roster pair of a patient saved by the specialist, a check
\* whose reads succeed is true, and after an auto mark whose remote calls
\* all succeed get_completed holds the patient
C7_SavedThenComplete ==
    /\ ( /\ lastOp.op = "check"
         /\ lastOp.remote_ok
         /\ lastOp.df_patient = RosterOf(lastOp.maskedid)
         /\ AllRecorded(lastOp.username, lastOp.maskedid) )
       => lastOp.result
    /\ (lastOp.op = "auto" /\ lastOp.remote_ok)
       => \A m \in Patients :
            AllRecorded(lastOp.username, m) => m \in CompletedNow(lastOp.username)

\* C8: an auto mark whose remote calls succeed returns the roster patients
\* that were not completed and have every pair in the label rows it read,
\* and the persisted completion set afterwards is the set before plus all
\* the patients returned
C8_AutoMarkExact ==
    [][ (lastOp'.op = "auto" /\ lastOp'.remote_ok) =>
          /\ labelsCache'.df.found =>
                Range(lastOp'.newly) =
                  { m \in Patients :
                      /\ m \notin get_completed_patients(progCache'.df, TrackerUser)
                      /\ ExpectedPairs(RosterOf(m)) \subseteq FoundPairs(labelsCache'.df.rows, TrackerUser, m) }
          /\ PersistedCompleted(TrackerUser)' =
                PersistedCompleted(TrackerUser) \cup Range(lastOp'.newly) ]_vars

\* C9: a mark, with working remote calls, of a patient that is already in
\* the specialist's persisted completion set succeeds and leaves the
\* specialist's row (set and last_patient) as it was
C9_MarkIdempotent ==
    [][ \A u \in Specialists :
          ( /\ lastOp'.op = "mark" /\ lastOp'.username = u /\ lastOp'.remote_ok
            /\ lastOp'.maskedid \in PersistedCompleted(u) )
          => (lastOp'.result /\ PersistedRow(u)' = PersistedRow(u)) ]_vars

\* C10: after a reset that returned true the progress sheet has no row of
\* the specialist and the completion set read from it is empty
C10_ResetRemovesRow ==
    (lastOp.op = "reset" /\ lastOp.result) =>
        /\ UserIndex(ProgRows, lastOp.username) = 0
        /\ PersistedCompleted(lastOp.username) = {}

\* every order of the elements of a list
Orders(s) ==
    LET n == Len(s)
        perms == {f \in [1..n -> 1..n] : \A i, j \in 1..n : f[i] = f[j] => i = j}
    IN  {[i \in 1..n |-> s[f[i]]] : f \in perms}

\* C11: get_available returns the elements of all_patients that are not
\* in the completion set get_completed returns, in ascending order, and
\* returns the same list for every order of all_patients
C11_AvailableSorted ==
    lastOp.op = "available" =>
        LET res == lastOp.result
            all == lastOp.all_patients
            completed == CompletedNow(lastOp.username)
        IN  /\ \A p \in AllPatients :
                  Cardinality({i \in 1..Len(res) : res[i] = p}) =
                    IF p \in completed THEN 0
                    ELSE Cardinality({i \in 1..Len(all) : all[i] = p})
            /\ \A i \in 1..Len(res), j \in 1..Len(res) :
                  i < j => Rank(res[i]) <= Rank(res[j])
            /\ \A q \in Orders(all) :
                  get_available_patients(progCache.df, lastOp.username, q) = res

\* a list given in descending order came back ascending without the one
\* patient the specialist has completed
C11_Witness ==
    /\ lastOp.op = "available"
    /\ lastOp.all_patients = <<"P003", "P002", "P001">>
    /\ CompletedNow(lastOp.username) = {"P002"}
    /\ lastOp.result = <<"P001", "P003">>

\* the integer a cell text denotes
TextDenotes(text) == IF text \in {IntStr(1), DecStr(1)} THEN 1 ELSE 2

\* C12: the completion check is true exactly when, for every roster row,
\* the frame it read holds a row of the specialist, patient and eye whose
\* field index denotes the same integer, whatever form either side has
C12_FieldFormsEqual ==
    lastOp.op = "check_forms" =>
        ( lastOp.result <=>
            \A r \in lastOp.df_patient :
                \E i \in 1..Len(labelsCache.df.rows) :
                    /\ labelsCache.df.rows[i].username = lastOp.username
                    /\ labelsCache.df.rows[i].maskedid = lastOp.maskedid
                    /\ labelsCache.df.rows[i].eye = r.eye
                    /\ TextDenotes(labelsCache.df.rows[i].vf_number) = r.visual_field_number.n )

\* the local file of the identity of the last load exists / exists and parses
LoadFileExists == LastPath \in DOMAIN files
LoadFileReadable == LoadFileExists /\ files[LastPath].parses

\* the record of the first sheet row of the identity of the last load: its
\* non-empty cells by column name
LoadRowRecord ==
    LET i == CHOOSE k \in LastRows : \A j \in LastRows : k <= j
        keys == {column_mapping[k] : k \in 1..Len(column_mapping)}
    IN  [c \in {k \in keys : sheet[i][k] # ""} |-> sheet[i][c]]

\* what the remote lookup of the last load gives
LoadRemoteAnswer ==
    IF lastOp.svc /\ lastOp.readOk /\ lastOp.rowReadOk /\ LastRows # {}
    THEN Some(LoadRowRecord) ELSE None

\* C13 as stated: a readable local file is what load returns whatever the
\* remote side holds or does; whenever a local file exists the answer does
\* not depend on the remote side; without a local file the answer is the
\* record of the matching row, or absent
C13_LocalFirst ==
    lastOp.op = "load" =>
        /\ LoadFileReadable => lastOp.result = Some(files[LastPath].dict)
        /\ LoadFileExists => LastLoads = {lastOp.result}
        /\ ~LoadFileExists => lastOp.result = LoadRemoteAnswer

\* C13 amended: a readable local file is what load returns whatever the
\* remote side holds or does; in every other case, no local file or one
\* that does not deserialize, the answer is the record of the first
\* matching row, or absent
C13_LocalElseRemote ==
    lastOp.op = "load" =>
        /\ LoadFileReadable =>
              /\ lastOp.result = Some(files[LastPath].dict)
              /\ LastLoads = {lastOp.result}
        /\ ~LoadFileReadable => lastOp.result = LoadRemoteAnswer

\* a load found the record of a sheet row while a local file of the
\* identity exists that does not deserialize
C13_Witness ==
    /\ lastOp.op = "load"
    /\ LoadFileExists /\ ~LoadFileReadable
    /\ lastOp.result.found
    /\ lastOp.result = Some(LoadRowRecord)

\* C14 as stated: a local file that does not deserialize, or a matching
\* row that cannot be read, makes load return absent
C14_MalformedAbsent ==
    lastOp.op = "load" =>
        /\ (LoadFileExists /\ ~LoadFileReadable) => lastOp.result = None
        /\ (~LoadFileReadable /\ LastRows # {} /\ ~(lastOp.readOk /\ lastOp.rowReadOk))
              => lastOp.result = None

\* C14 amended: a local file that does not deserialize is passed over
\* without an error: load returns absent unless the remote lookup finds and
\* reads a matching row, whose record it then returns; a matching row that
\* cannot be read makes load return absent when no local file is readable
C14_MalformedFallsBack ==
    lastOp.op = "load" =>
        /\ (LoadFileExists /\ ~LoadFileReadable) =>
              /\ lastOp.result = LoadRemoteAnswer
              /\ (lastOp.result = None) <=>
                    ~(lastOp.svc /\ lastOp.readOk /\ lastOp.rowReadOk /\ LastRows # {})
        /\ (~LoadFileReadable /\ LastRows # {} /\ ~(lastOp.readOk /\ lastOp.rowReadOk))
              => lastOp.result = None

\* a load returned absent although the identity has a sheet row: the local
\* file does not deserialize and the read of the row failed
C14_Witness ==
    /\ lastOp.op = "load"
    /\ LoadFileExists /\ ~LoadFileReadable
    /\ LastRows # {}
    /\ lastOp.svc /\ lastOp.readOk /\ ~lastOp.rowReadOk
    /\ lastOp.result = None

\* the local files of a (specialist, patient) pair: one per eye and field
PairFiles(username, maskedid) ==
    {get_label_path(username, maskedid, e, vf) : e \in Eyes, vf \in Fields} \cap DOMAIN files

\* C19: a delete whose file removals all work returns true and removes
\* the local files of the pair, every other file staying as it was; with
\* no file of the pair or no label directory it changes nothing; the list
\* of the pair's labels is empty afterwards
C19_DeleteIdempotent ==
    [][ (lastOp'.op = "delete" /\ ~lastOp'.raised) =>
          LET u == lastOp'.username
              m == lastOp'.maskedid
          IN  /\ lastOp'.result
              /\ files' = [f \in DOMAIN files \ PairFiles(u, m) |-> files[f]]
              /\ PairFiles(u, m) = {} => files' = files
              /\ get_user_labels_for_patient(files', u, m) = EmptyDict ]_vars

\* a delete removed two files of a patient and returned true while a file
\* of the other patient stays
C19_Witness ==
    /\ lastOp.op = "delete"
    /\ lastOp.result /\ ~lastOp.raised
    /\ lastOp.removed = 2
    /\ files # << >>
    /\ PairFiles(lastOp.username, lastOp.maskedid) = {}

\* C20: a save whose local write worked and whose remote write raised
\* shows no error message; a message is shown only when the local write
\* failed or no sink took the record
C20_RemoteErrorSwallowed ==
    lastOp.op = "save" =>
        /\ (lastOp.local_saved /\ lastOp.attempted /\ ~lastOp.sheets_saved)
              => lastOp.st_errors = {}
        /\ lastOp.st_errors # {} => (~lastOp.local_saved \/ ~lastOp.result)

\* C22: when no save of the two sessions is under way, the sheet has one
\* row for the identity, holding the payload of the write that completed
\* last, and the local file holds one complete record
C22_LastWriteWins ==
    (inflight = << >> /\ lastOp.op = "save_write") =>
        /\ RowCount(sheet, "117", "P001", "R", 1) = 1
        /\ \A i \in 1..Len(sheet) :
              sheet[i] = row_data("117", "P001", "R", 1, lastOp.labels)
        /\ \E d \in Payloads :
              files[get_label_path("117", "P001", "R", 1)] = Json(d)

\* C23: a load that directly follows a save of the same identity that
\* returned true, with the remote side working during the load, returns a
\* record that has every field of the saved dictionary with the same value
C23_SaveThenLoad ==
    [][ ( /\ lastOp.op = "save" /\ lastOp.result
          /\ lastOp'.op = "load"
          /\ lastOp'.username = lastOp.username /\ lastOp'.maskedid = lastOp.maskedid
          /\ lastOp'.eye = lastOp.eye /\ lastOp'.vf_number = lastOp.vf_number
          /\ lastOp'.svc /\ lastOp'.readOk /\ lastOp'.rowReadOk )
        => ( /\ lastOp'.result.found
             /\ \A k \in DOMAIN lastOp.labels :
                   /\ k \in DOMAIN lastOp'.result.dict
                   /\ lastOp'.result.dict[k] = lastOp.labels[k] ) ]_vars

\* C24: what get_completed_patients returns from a read the sheet served
\* is never a row that was replaced in the sheet more than 30 seconds
\* before, and a call reads the sheet only when no read was made in the
\* 30 seconds before it
C24_FreshWithinTTL ==
    [][ lastOp'.op = "get" =>
          /\ lastOp'.served =>
                \A e \in hist'.replaced : e.row = lastOp'.row => e.age <= TTL
          /\ lastOp'.read => (hist.lastRead < 0 \/ hist.lastRead >= TTL) ]_vars

\* a get answered, without a read, with a row that the sheet no longer has
C24_Witness ==
    /\ lastOp.op = "get" /\ lastOp.served /\ ~lastOp.read
    /\ lastOp.row # CurrentRow(progSheet, lastOp.username)
    /\ \E e \in hist.replaced : e.row = lastOp.row /\ e.age > 0

C26_FallbackUnreachable ==
    (lastOp.op = "render" /\ lastOp.handled) =>
        /\ lastOp.selected \in DictKeys(cm.image_cache)
        /\ ~lastOp.fallback

\* C28: every entry of the label map of the session is the record that
\* the Label Store returns for the patient; after a save made from the
\* page that no sink took, the map does not hold the labels of that save
C28_LabelMapIsStore ==
    /\ \A i \in 1..Len(cm.labels_cache) :
          cm.labels_cache[i].value =
              load_labels(files, sheet, PageUser, cm.labels_cache[i].key, PageEye, PageField,
                          TRUE, TRUE, TRUE)
    /\ (lastOp.op = "page_save" /\ ~lastOp.success) =>
          \A i \in 1..Len(cm.labels_cache) :
              cm.labels_cache[i].key = lastOp.selected =>
                  cm.labels_cache[i].value # Some(lastOp.labels)

\* C27: a save or a delete made for one (specialist, patient) leaves the
\* local file of every other (specialist, patient) as it was: no two
\* identities have the same file, also when an identifier has '_' in it
C27_OwnRecordOnly ==
    [][ (lastOp'.op \in {"save", "delete"}) =>
          \A u \in PathUsers, m \in PathPatients :
              (<<u, m>> # <<lastOp'.username, lastOp'.maskedid>>) =>
                  LET path == get_label_path(u, m, "R", 1)
                  IN  /\ path # get_label_path(lastOp'.username, lastOp'.maskedid, "R", 1)
                      /\ (path \in DOMAIN files) = (path \in DOMAIN files')
                      /\ path \in DOMAIN files => files'[path] = files[path] ]_vars

\* C29: a save whose local write fails leaves the local record that was
\* stored before as it was: the file still deserializes to that record
C29_FailedWriteKeepsRecord ==
    [][ ( /\ lastOp'.op = "save" /\ ~lastOp'.local_saved
          /\ get_label_path(lastOp'.username, lastOp'.maskedid, lastOp'.eye, lastOp'.vf_number)
                \in DOMAIN files )
        => LET path == get_label_path(lastOp'.username, lastOp'.maskedid,
                                      lastOp'.eye, lastOp'.vf_number)
           IN  files[path].parses =>
                 /\ path \in DOMAIN files'
                 /\ files'[path] = files[path] ]_vars

KeySeq(d) == [i \in 1..Len(d) |-> d[i].key]

\* a key sequence without one key
Without(s, k) ==
    LET other(x) == x # k IN SelectSeq(s, other)

\* C15: selecting a patient puts its key at the most-recently-used end of
\* the patient map; a key that was there is moved and nothing is evicted;
\* a new key evicts the key at the least-recently-used end exactly when
\* the map is full, so N+1 distinct selections leave the last N
C15_PatientMapLRU ==
    [][ lastOp'.op = "get_cached_patient_data" =>
          LET k == lastOp'.key
              old == KeySeq(cm.patient_cache)
              new == KeySeq(cm'.patient_cache)
          IN  /\ Len(new) <= max_cache_size
              /\ (\E i \in 1..Len(old) : old[i] = k) => new = Append(Without(old, k), k)
              /\ (\A i \in 1..Len(old) : old[i] # k) =>
                    new = IF Len(old) < max_cache_size THEN Append(old, k)
                          ELSE Append(Tail(old), k) ]_vars

\* patients 12, 120, 12 again, 7 were selected with capacity 2: the
\* patient map dropped 120 and kept the re-accessed 12 (the image map,
\* filled by the same calls, shows 12 was the older insertion)
C15_Witness ==
    /\ lastOp.op = "get_cached_patient_data"
    /\ lastOp.key = <<"7">>
    /\ KeySeq(cm.patient_cache) = << <<"1", "2">>, <<"7">> >>
    /\ KeySeq(cm.image_cache) = << <<"1", "2", "0">>, <<"7">> >>

\* C16: a cache_patient_images or cache_patient_labels call on a key that
\* is in the map leaves that key at the most-recently-used end of the map
C16_HitRefreshes ==
    [][ /\ ( /\ lastOp'.op = "cache_patient_images"
              /\ lastOp'.key \in DictKeys(cm.image_cache) )
            => KeySeq(cm'.image_cache)[Len(cm'.image_cache)] = lastOp'.key
        /\ ( /\ lastOp'.op = "cache_patient_labels"
              /\ lastOp'.key \in DictKeys(cm.labels_cache) )
            => KeySeq(cm'.labels_cache)[Len(cm'.labels_cache)] = lastOp'.key ]_vars

\* C17: each of the three maps holds at most max_cache_size entries
C17_MapsBounded ==
    /\ Len(cm.patient_cache) <= max_cache_size
    /\ Len(cm.image_cache) <= max_cache_size
    /\ Len(cm.labels_cache) <= max_cache_size

\* the keys of patient X: X itself and X_<timepoint>
KeyOfPatient(key, patient_key) ==
    \/ key = patient_key
    \/ /\ Len(key) > Len(patient_key) + 1
       /\ SubSeq(key, 1, Len(patient_key) + 1) = patient_key \o <<"_">>

\* C18: clear_patient_cache(X) removes from each map the keys of patient X
\* and no other key
C18_ClearExact ==
    [][ lastOp'.op = "clear_patient_cache" =>
          LET rest(d) == {k \in DictKeys(d) : ~KeyOfPatient(k, lastOp'.key)}
          IN  /\ DictKeys(cm'.patient_cache) = rest(cm.patient_cache)
              /\ DictKeys(cm'.image_cache) = rest(cm.image_cache)
              /\ DictKeys(cm'.labels_cache) = rest(cm.labels_cache) ]_vars

\* ------------------------------------------------------ Image Handler claims
\* res is src with the paths that are not readable taken out, the others
\* in their order: an increasing choice of positions of src that takes
\* every readable path and nothing else
KeepsReadable(res, src, disk) ==
    \E f \in [1..Len(res) -> 1..Len(src)] :
        /\ \A i \in 1..Len(res), j \in 1..Len(res) : i < j => f[i] < f[j]
        /\ \A i \in 1..Len(res) : res[i] = src[f[i]] /\ disk[res[i]] = "ok"
        /\ \A j \in 1..Len(src) : disk[src[j]] = "ok" => \E i \in 1..Len(res) : f[i] = j

\* C21: on a miss each of the four lists stored and returned is the
\* resolver's list without its missing and unreadable paths, the rest in
\* order; the entry stored is the one returned
C21_UnreadableDropped ==
    (lastOp.op = "cache_images" /\ ~lastOp.hit) =>
        /\ KeepsReadable(lastOp.result.vf_od, lastOp.resolved.vf_od, lastOp.disk)
        /\ KeepsReadable(lastOp.result.vf_os, lastOp.resolved.vf_os, lastOp.disk)
        /\ KeepsReadable(lastOp.result.oct_od, lastOp.resolved.oct_od, lastOp.disk)
        /\ KeepsReadable(lastOp.result.oct_os, lastOp.resolved.oct_os, lastOp.disk)
        /\ ItemOf(cm.image_cache, lastOp.key) = lastOp.result

\* a miss whose first list names a readable, an unreadable and a missing
\* file, of which the readable one alone came back
C21_Witness ==
    /\ lastOp.op = "cache_images" /\ ~lastOp.hit
    /\ lastOp.resolved.vf_od = <<"a.png", "b.png", "c.png">>
    /\ lastOp.disk["a.png"] = "unreadable"
    /\ lastOp.disk["b.png"] = "ok"
    /\ lastOp.disk["c.png"] = "missing"
    /\ lastOp.result.vf_od = <<"b.png">>
    /\ lastOp.result.oct_os = <<"b.png">>

====
